---- MODULE Spec2Model ----
(***************************************************************************)
(* ShadowPay HTTP 434 middleware (examples/axum-http-434-middleware.rs).   *)
(* Header values are sequences of one-character strings; a header map is a *)
(* function whose domain is the set of header names that are present.      *)
(***************************************************************************)
EXTENDS Integers, Sequences, FiniteSets, TLC

\* ------------------------------------------------------------------------
\* Bounds
\* ------------------------------------------------------------------------
\* number of requests the server receives in one run
NumReqs == 3

Reqs == 1..NumReqs

\* ------------------------------------------------------------------------
\* Characters and strings
\* ------------------------------------------------------------------------
Rep(c, n) == [i \in 1..n |-> c]

Digits == {"0", "1", "2", "3", "4", "5", "6", "7", "8", "9"}

LowerAlpha == {"a", "b", "c", "d", "e", "f", "g", "h", "i", "j", "k", "l", "m",
               "n", "o", "p", "q", "r", "s", "t", "u", "v", "w", "x", "y", "z"}

UpperAlpha == {"A", "B", "C", "D", "E", "F", "G", "H", "I", "J", "K", "L", "M",
               "N", "O", "P", "Q", "R", "S", "T", "U", "V", "W", "X", "Y", "Z"}

\* a byte outside visible ASCII, as HeaderValue may hold
NonAscii == "\\xff"

Whitespace == {" ", "\t"}

VisibleAscii == Digits \cup LowerAlpha \cup UpperAlpha \cup Whitespace
                  \cup {"_", "/", "+", "=", "!", "-"}

IsAsciiHexdigit(c) == c \in Digits \cup {"a", "b", "c", "d", "e", "f"}
                                   \cup {"A", "B", "C", "D", "E", "F"}

Base64Alphabet == Digits \cup LowerAlpha \cup UpperAlpha \cup {"+", "/"}

\* str::trim: drop leading and trailing whitespace
RECURSIVE TrimStart(_)
TrimStart(s) == IF s # <<>> /\ Head(s) \in Whitespace THEN TrimStart(Tail(s)) ELSE s

RECURSIVE TrimEnd(_)
TrimEnd(s) == IF s # <<>> /\ s[Len(s)] \in Whitespace
              THEN TrimEnd(SubSeq(s, 1, Len(s) - 1)) ELSE s

Trim(s) == TrimEnd(TrimStart(s))

\* str::starts_with
StartsWith(s, prefix) == Len(s) >= Len(prefix) /\ SubSeq(s, 1, Len(prefix)) = prefix

\* HeaderValue::to_str().ok(): Some(s) as <<s>>, None as <<>>
ToStrOk(v) == IF \A i \in 1..Len(v) : v[i] \in VisibleAscii THEN <<v>> ELSE <<>>

\* HeaderMap::get(name).and_then(|v| v.to_str().ok())
GetStr(headers, name) == IF name \in DOMAIN headers THEN ToStrOk(headers[name]) ELSE <<>>

\* Option::unwrap_or
UnwrapOr(opt, default) == IF opt = <<>> THEN default ELSE opt[1]

\* base64::decode(..).is_ok() with the standard alphabet: symbols from the
\* alphabet, at most two '=' and only at the end, a padded input is a whole
\* number of quads, and a lone trailing symbol is never decodable.
NumPadding(s) == IF s # <<>> /\ s[Len(s)] = "="
                 THEN (IF Len(s) >= 2 /\ s[Len(s) - 1] = "=" THEN 2 ELSE 1)
                 ELSE 0

Base64DecodeIsOk(s) ==
    LET pad == NumPadding(s)
        sym == Len(s) - pad
    IN  /\ \A i \in 1..sym : s[i] \in Base64Alphabet
        /\ sym % 4 # 1
        /\ pad > 0 => (Len(s) % 4 = 0 /\ sym > 0)

\* ------------------------------------------------------------------------
\* Program constants
\* ------------------------------------------------------------------------
H_PROOF == "X-ShadowPay-Proof"
H_NULLIFIER == "X-ShadowPay-Nullifier"
H_MERKLE_ROOT == "X-ShadowPay-Merkle-Root"
H_INVOICE_ID == "X-ShadowPay-Invoice-Id"
H_ESCROW_ACCOUNT == "X-ShadowPay-Escrow-Account"
H_SCHEME == "X-ShadowPay-Scheme"

MandatoryHeaders == {H_PROOF, H_NULLIFIER, H_MERKLE_ROOT, H_INVOICE_ID}

HeaderNames == MandatoryHeaders \cup {H_ESCROW_ACCOUNT, H_SCHEME}

\* "/v1/protected"
ProtectedPrefix == <<"/", "v", "1", "/", "p", "r", "o", "t", "e", "c", "t", "e", "d">>

\* "inv_demo_1"
DemoInvoiceId == <<"i", "n", "v", "_", "d", "e", "m", "o", "_", "1">>

\* "LOCKED_ESCROW_FOR_DEMO"
LockedEscrow == <<"L", "O", "C", "K", "E", "D", "_", "E", "S", "C", "R", "O", "W", "_", "F", "O", "R", "_", "D", "E", "M", "O">>

\* "shadowpay_v1"
DefaultScheme == <<"s", "h", "a", "d", "o", "w", "p", "a", "y", "_", "v", "1">>

Hex32Len == 64

MinNullifierLen == 16

STATUS_PROOF_REQUIRED == 434

UNPROCESSABLE_ENTITY == 422

CONFLICT == 409

LOCKED == 423

PRECONDITION_REQUIRED == 428

\* ------------------------------------------------------------------------
\* Pure functions of the middleware
\* ------------------------------------------------------------------------
has_shadowpay_headers(headers) ==
    /\ H_PROOF \in DOMAIN headers
    /\ H_NULLIFIER \in DOMAIN headers
    /\ H_MERKLE_ROOT \in DOMAIN headers
    /\ H_INVOICE_ID \in DOMAIN headers

looks_like_base64(s) ==
    LET clean == Trim(s)
    IN  IF clean = <<>> THEN FALSE ELSE Base64DecodeIsOk(clean)

looks_like_hex32(s) ==
    LET clean == Trim(s)
    IN  Len(clean) = Hex32Len /\ \A i \in 1..Len(clean) : IsAsciiHexdigit(clean[i])

\* the fields verify_shadowpay reads from the header map
Fields(headers) ==
    [proof          |-> UnwrapOr(GetStr(headers, H_PROOF), <<>>),
     nullifier      |-> UnwrapOr(GetStr(headers, H_NULLIFIER), <<>>),
     merkle_root    |-> UnwrapOr(GetStr(headers, H_MERKLE_ROOT), <<>>),
     invoice_id     |-> UnwrapOr(GetStr(headers, H_INVOICE_ID), <<>>),
     escrow_account |-> GetStr(headers, H_ESCROW_ACCOUNT),
     scheme         |-> UnwrapOr(GetStr(headers, H_SCHEME), DefaultScheme)]

OkResult == [kind |-> "Ok"]

MissingHeaders == [kind |-> "MissingHeaders"]

InvalidProof(msg) == [kind |-> "InvalidProof", msg |-> msg]

DoubleSpend(msg) == [kind |-> "DoubleSpend", msg |-> msg]

EscrowLocked == [kind |-> "EscrowLocked"]

PreconditionMissing(msg) == [kind |-> "PreconditionMissing", msg |-> msg]

\* the scheme is checked too: anything but the default scheme is refused
StructuralChecks_SchemeChecked(headers) ==
    LET f == Fields(headers)
    IN  IF f.proof = <<>> \/ f.nullifier = <<>> \/ f.merkle_root = <<>> \/ f.invoice_id = <<>>
        THEN MissingHeaders
        ELSE IF f.scheme # DefaultScheme
        THEN InvalidProof("Unsupported scheme")
        ELSE IF f.invoice_id # DemoInvoiceId
        THEN PreconditionMissing("Unknown or inactive invoice id")
        ELSE IF ~looks_like_base64(f.proof)
        THEN InvalidProof("Proof is not valid base64")
        ELSE IF ~looks_like_hex32(f.merkle_root)
        THEN InvalidProof("Merkle root must be 32 byte hex")
        ELSE IF Len(f.nullifier) < MinNullifierLen
        THEN InvalidProof("Nullifier looks too short")
        ELSE IF f.escrow_account # <<>> /\ f.escrow_account[1] = LockedEscrow
        THEN EscrowLocked
        ELSE OkResult

\* the proof is checked before the invoice id
StructuralChecks_ProofFirst(headers) ==
    LET f == Fields(headers)
    IN  IF f.proof = <<>> \/ f.nullifier = <<>> \/ f.merkle_root = <<>> \/ f.invoice_id = <<>>
        THEN MissingHeaders
        ELSE IF ~looks_like_base64(f.proof)
        THEN InvalidProof("Proof is not valid base64")
        ELSE IF f.invoice_id # DemoInvoiceId
        THEN PreconditionMissing("Unknown or inactive invoice id")
        ELSE IF ~looks_like_hex32(f.merkle_root)
        THEN InvalidProof("Merkle root must be 32 byte hex")
        ELSE IF Len(f.nullifier) < MinNullifierLen
        THEN InvalidProof("Nullifier looks too short")
        ELSE IF f.escrow_account # <<>> /\ f.escrow_account[1] = LockedEscrow
        THEN EscrowLocked
        ELSE OkResult

\* the escrow check is left out
StructuralChecks_NoEscrow(headers) ==
    LET f == Fields(headers)
    IN  IF f.proof = <<>> \/ f.nullifier = <<>> \/ f.merkle_root = <<>> \/ f.invoice_id = <<>>
        THEN MissingHeaders
        ELSE IF f.invoice_id # DemoInvoiceId
        THEN PreconditionMissing("Unknown or inactive invoice id")
        ELSE IF ~looks_like_base64(f.proof)
        THEN InvalidProof("Proof is not valid base64")
        ELSE IF ~looks_like_hex32(f.merkle_root)
        THEN InvalidProof("Merkle root must be 32 byte hex")
        ELSE IF Len(f.nullifier) < MinNullifierLen
        THEN InvalidProof("Nullifier looks too short")
        ELSE OkResult

\* verify_shadowpay up to the point where it takes the nullifier lock
StructuralChecks(headers) ==
    LET f == Fields(headers)
    IN  IF f.proof = <<>> \/ f.nullifier = <<>> \/ f.merkle_root = <<>> \/ f.invoice_id = <<>>
        THEN MissingHeaders
        ELSE IF f.invoice_id # DemoInvoiceId
        THEN PreconditionMissing("Unknown or inactive invoice id")
        ELSE IF ~looks_like_base64(f.proof)
        THEN InvalidProof("Proof is not valid base64")
        ELSE IF ~looks_like_hex32(f.merkle_root)
        THEN InvalidProof("Merkle root must be 32 byte hex")
        ELSE IF Len(f.nullifier) < MinNullifierLen
        THEN InvalidProof("Nullifier looks too short")
        ELSE IF f.escrow_account # <<>> /\ f.escrow_account[1] = LockedEscrow
        THEN EscrowLocked
        ELSE OkResult

\* the prefix is cut short: "/v1/p"
IsProtected_ShortPrefix(path) == StartsWith(path, SubSeq(ProtectedPrefix, 1, 5))

IsProtected(path) == StartsWith(path, ProtectedPrefix)

ErrorBody(status, title, detail) == [status |-> status, title |-> title, detail |-> detail]

Response(code, body) == [code |-> code, body |-> body]

\* the response built when has_shadowpay_headers is false
ProofRequiredResponse ==
    Response(STATUS_PROOF_REQUIRED,
             ErrorBody(434, "Private Payment Proof Required",
                       "ShadowPay proof headers are required on this endpoint."))

\* the DoubleSpend arm answers with the status of the EscrowLocked arm
ErrorResponse_ConflictAsLocked(err) ==
    CASE err.kind = "MissingHeaders" ->
           Response(STATUS_PROOF_REQUIRED,
                    ErrorBody(434, "Private Payment Proof Required",
                              "ShadowPay proof headers are incomplete."))
      [] err.kind = "InvalidProof" ->
           Response(UNPROCESSABLE_ENTITY,
                    ErrorBody(422, "Invalid ShadowPay Proof", err.msg))
      [] err.kind = "DoubleSpend" ->
           Response(LOCKED,
                    ErrorBody(409, "ShadowPay Nullifier Conflict", err.msg))
      [] err.kind = "EscrowLocked" ->
           Response(LOCKED,
                    ErrorBody(423, "ShadowPay Escrow Locked",
                              "Escrow account is locked for this demo."))
      [] err.kind = "PreconditionMissing" ->
           Response(PRECONDITION_REQUIRED,
                    ErrorBody(428, "ShadowPay Precondition Required", err.msg))

\* the MissingHeaders arm answers with the status and title of the InvalidProof arm
ErrorResponse_MissingAsInvalid(err) ==
    CASE err.kind = "MissingHeaders" ->
           Response(UNPROCESSABLE_ENTITY,
                    ErrorBody(422, "Invalid ShadowPay Proof",
                              "ShadowPay proof headers are incomplete."))
      [] err.kind = "InvalidProof" ->
           Response(UNPROCESSABLE_ENTITY,
                    ErrorBody(422, "Invalid ShadowPay Proof", err.msg))
      [] err.kind = "DoubleSpend" ->
           Response(CONFLICT,
                    ErrorBody(409, "ShadowPay Nullifier Conflict", err.msg))
      [] err.kind = "EscrowLocked" ->
           Response(LOCKED,
                    ErrorBody(423, "ShadowPay Escrow Locked",
                              "Escrow account is locked for this demo."))
      [] err.kind = "PreconditionMissing" ->
           Response(PRECONDITION_REQUIRED,
                    ErrorBody(428, "ShadowPay Precondition Required", err.msg))

\* the Err arms of the match on verify_shadowpay's result
ErrorResponse(err) ==
    CASE err.kind = "MissingHeaders" ->
           Response(STATUS_PROOF_REQUIRED,
                    ErrorBody(434, "Private Payment Proof Required",
                              "ShadowPay proof headers are incomplete."))
      [] err.kind = "InvalidProof" ->
           Response(UNPROCESSABLE_ENTITY,
                    ErrorBody(422, "Invalid ShadowPay Proof", err.msg))
      [] err.kind = "DoubleSpend" ->
           Response(CONFLICT,
                    ErrorBody(409, "ShadowPay Nullifier Conflict", err.msg))
      [] err.kind = "EscrowLocked" ->
           Response(LOCKED,
                    ErrorBody(423, "ShadowPay Escrow Locked",
                              "Escrow account is locked for this demo."))
      [] err.kind = "PreconditionMissing" ->
           Response(PRECONDITION_REQUIRED,
                    ErrorBody(428, "ShadowPay Precondition Required", err.msg))

\* ------------------------------------------------------------------------
\* Sample header values and paths
\* ------------------------------------------------------------------------
\* "/v1/protected/x"
PathProtectedSub == ProtectedPrefix \o <<"/", "x">>

\* "/v1/public"
PathPublic == <<"/", "v", "1", "/", "p", "u", "b", "l", "i", "c">>

\* "QUJD"
ProofOk == <<"Q", "U", "J", "D">>

\* "!!"
ProofBad == <<"!", "!">>

Blank == <<" ">>

Empty == <<>>

Opaque == <<NonAscii>>

MerkleOk == Rep("a", Hex32Len)

\* "abc"
MerkleShort == <<"a", "b", "c">>

MerkleNotHex == Rep("g", Hex32Len)

NullA == Rep("n", MinNullifierLen + 4)

NullB == Rep("m", MinNullifierLen)

NullShort == Rep("n", MinNullifierLen - 1)

NullBlank == Rep(" ", MinNullifierLen)

\* "inv_unknown"
InvoiceUnknown == <<"i", "n", "v", "_", "u", "n", "k", "n", "o", "w", "n">>

\* "acct"
EscrowOpen == <<"a", "c", "c", "t">>

\* "v2"
SchemeOther == <<"v", "2">>

\* Some(v) / None for a header that is sent or left out
Some(v) == <<v>>

None == <<>>

\* the header map holding exactly the headers that were sent
HeaderMap(p, n, m, i, e, s) ==
    LET sent == (H_PROOF :> p) @@ (H_NULLIFIER :> n) @@ (H_MERKLE_ROOT :> m)
                 @@ (H_INVOICE_ID :> i) @@ (H_ESCROW_ACCOUNT :> e) @@ (H_SCHEME :> s)
    IN  [k \in {h \in HeaderNames : sent[h] # None} |-> sent[k][1]]

Request(path, headers) == [path |-> path, headers |-> headers]

NoHeaders == HeaderMap(None, None, None, None, None, None)

\* a credential that passes every structural check
ValidHeaders(n, e, s) ==
    HeaderMap(Some(ProofOk), Some(n), Some(MerkleOk), Some(DemoInvoiceId), e, s)

\* requests of the concurrent specification
SampleRequests ==
    {Request(ProtectedPrefix, ValidHeaders(NullA, None, None)),
     Request(ProtectedPrefix, ValidHeaders(NullA, Some(EscrowOpen), Some(SchemeOther))),
     Request(PathProtectedSub, ValidHeaders(NullB, None, None)),
     Request(ProtectedPrefix, ValidHeaders(NullA, Some(LockedEscrow), None)),
     Request(ProtectedPrefix,
             HeaderMap(Some(ProofOk), Some(NullA), Some(MerkleOk), Some(InvoiceUnknown), None, None)),
     Request(ProtectedPrefix,
             HeaderMap(Some(ProofOk), Some(NullA), Some(MerkleShort), Some(DemoInvoiceId), None, None)),
     Request(ProtectedPrefix,
             HeaderMap(Some(Empty), Some(NullA), Some(MerkleOk), Some(DemoInvoiceId), None, None)),
     Request(ProtectedPrefix,
             HeaderMap(None, Some(NullA), None, None, None, None)),
     Request(ProtectedPrefix, NoHeaders),
     Request(PathPublic, ValidHeaders(NullA, None, None)),
     Request(PathPublic, NoHeaders)}

\* requests of the sequential specification: every combination of the samples
Paths == {ProtectedPrefix, PathPublic}

ProofOpts == {None, Some(Empty), Some(Blank), Some(ProofOk), Some(ProofBad)}

NullifierOpts == {None, Some(Empty), Some(NullA), Some(NullB), Some(NullShort), Some(NullBlank)}

MerkleOpts == {None, Some(Opaque), Some(MerkleOk), Some(MerkleShort), Some(MerkleNotHex)}

InvoiceOpts == {None, Some(Empty), Some(Blank), Some(DemoInvoiceId), Some(InvoiceUnknown)}

EscrowOpts == {None, Some(EscrowOpen), Some(LockedEscrow)}

SchemeOpts == {None, Some(SchemeOther)}

AllRequests ==
    {Request(path, HeaderMap(p, n, m, i, e, s)) :
        path \in Paths, p \in ProofOpts, n \in NullifierOpts, m \in MerkleOpts,
        i \in InvoiceOpts, e \in EscrowOpts, s \in SchemeOpts}

\* ------------------------------------------------------------------------
\* State
\* ------------------------------------------------------------------------
VARIABLES
    req,              \* req[r]: the request (path and headers) handled by call r
    pc,               \* pc[r]: where call r stands
    result,           \* result[r]: what verify_shadowpay returned to call r
    outcome,          \* outcome[r]: what call r did with the request
    inner_result,     \* inner_result[r]: what the inner service returned
    used_nullifiers,  \* ShadowPayState.used_nullifiers
    lock_holder       \* the call holding the mutex, 0 when it is free

vars == <<req, pc, result, outcome, inner_result, used_nullifiers, lock_holder>>

NoReq == Request(<<>>, <<>>)

NotCalled == [kind |-> "NotCalled"]

Pending == [kind |-> "Pending"]

\* inner.call(req) was invoked
Inner == [kind |-> "Inner"]

\* Ok(resp) was returned without calling the inner service
Responded(resp) == [kind |-> "Response", resp |-> resp]

Init ==
    /\ req = [r \in Reqs |-> NoReq]
    /\ pc = [r \in Reqs |-> "idle"]
    /\ result = [r \in Reqs |-> NotCalled]
    /\ outcome = [r \in Reqs |-> Pending]
    /\ inner_result = [r \in Reqs |-> "none"]
    /\ used_nullifiers = {}
    /\ lock_holder = 0

Nullifier(r) == UnwrapOr(GetStr(req[r].headers, H_NULLIFIER), <<>>)

\* ------------------------------------------------------------------------
\* ShadowPayMiddleware::call, from entry to the lock in verify_shadowpay
\* ------------------------------------------------------------------------
Call(r, rq) ==
    IF ~IsProtected(rq.path)
    THEN /\ pc' = [pc EXCEPT ![r] = "inner"]
         /\ outcome' = [outcome EXCEPT ![r] = Inner]
         /\ UNCHANGED result
    ELSE IF ~has_shadowpay_headers(rq.headers)
    THEN /\ pc' = [pc EXCEPT ![r] = "done"]
         /\ outcome' = [outcome EXCEPT ![r] = Responded(ProofRequiredResponse)]
         /\ UNCHANGED result
    ELSE LET checked == StructuralChecks(rq.headers)
         IN  IF checked # OkResult
             THEN /\ pc' = [pc EXCEPT ![r] = "done"]
                  /\ result' = [result EXCEPT ![r] = checked]
                  /\ outcome' = [outcome EXCEPT ![r] = Responded(ErrorResponse(checked))]
             ELSE /\ pc' = [pc EXCEPT ![r] = "lock"]
                  /\ UNCHANGED <<result, outcome>>

\* a new request arrives; requests are numbered in arrival order
Arrive(r) ==
    /\ pc[r] = "idle"
    /\ \A q \in 1..(r - 1) : pc[q] # "idle"
    /\ \E rq \in SampleRequests :
          /\ req' = [req EXCEPT ![r] = rq]
          /\ Call(r, rq)
    /\ UNCHANGED <<inner_result, used_nullifiers, lock_holder>>

\* a lock that does not exclude: the call enters although the mutex is taken
Lock_NoExclusion(r) ==
    /\ pc[r] = "lock"
    /\ lock_holder' = r
    /\ pc' = [pc EXCEPT ![r] = "contains"]
    /\ UNCHANGED <<req, result, outcome, inner_result, used_nullifiers>>

\* state.used_nullifiers.lock()
Lock(r) ==
    /\ pc[r] = "lock"
    /\ lock_holder = 0
    /\ lock_holder' = r
    /\ pc' = [pc EXCEPT ![r] = "contains"]
    /\ UNCHANGED <<req, result, outcome, inner_result, used_nullifiers>>

\* the guard is given up right after the check, before the insert
Contains_Unlocks(r) ==
    /\ pc[r] = "contains"
    /\ pc' = [pc EXCEPT ![r] = IF Nullifier(r) \in used_nullifiers
                                THEN "return_err" ELSE "insert"]
    /\ lock_holder' = 0
    /\ UNCHANGED <<req, result, outcome, inner_result, used_nullifiers>>

\* the check asks whether the set holds anything, not whether it holds the nullifier
Contains_AnyUsed(r) ==
    /\ pc[r] = "contains"
    /\ pc' = [pc EXCEPT ![r] = IF used_nullifiers # {} THEN "return_err" ELSE "insert"]
    /\ UNCHANGED <<req, result, outcome, inner_result, used_nullifiers, lock_holder>>

\* guard.contains(nullifier)
Contains(r) ==
    /\ pc[r] = "contains"
    /\ pc' = [pc EXCEPT ![r] = IF Nullifier(r) \in used_nullifiers
                                THEN "return_err" ELSE "insert"]
    /\ UNCHANGED <<req, result, outcome, inner_result, used_nullifiers, lock_holder>>

\* the proof is stored in place of the nullifier
Insert_WrongKey(r) ==
    /\ pc[r] = "insert"
    /\ used_nullifiers' = used_nullifiers \cup {Fields(req[r].headers).proof}
    /\ pc' = [pc EXCEPT ![r] = "return_ok"]
    /\ UNCHANGED <<req, result, outcome, inner_result, lock_holder>>

\* the insert is left out: the call succeeds without recording the nullifier
Insert_Skip(r) ==
    /\ pc[r] = "insert"
    /\ pc' = [pc EXCEPT ![r] = "return_ok"]
    /\ UNCHANGED <<req, result, outcome, inner_result, used_nullifiers, lock_holder>>

\* guard.insert(nullifier.to_string())
Insert(r) ==
    /\ pc[r] = "insert"
    /\ used_nullifiers' = used_nullifiers \cup {Nullifier(r)}
    /\ pc' = [pc EXCEPT ![r] = "return_ok"]
    /\ UNCHANGED <<req, result, outcome, inner_result, lock_holder>>

\* the mutex a returning call gives up when its guard is dropped
Unlocked(r) == IF lock_holder = r THEN 0 ELSE lock_holder

\* the DoubleSpend arm lets the request through instead of answering 409
ReturnErr_Forwards(r) ==
    /\ pc[r] = "return_err"
    /\ lock_holder' = Unlocked(r)
    /\ result' = [result EXCEPT ![r] = DoubleSpend("Nullifier already used")]
    /\ outcome' = [outcome EXCEPT ![r] = Inner]
    /\ pc' = [pc EXCEPT ![r] = "inner"]
    /\ UNCHANGED <<req, inner_result, used_nullifiers>>

\* the conflicting nullifier is evicted from the set when the 409 is answered
ReturnErr_Evicts(r) ==
    /\ pc[r] = "return_err"
    /\ lock_holder' = Unlocked(r)
    /\ used_nullifiers' = used_nullifiers \ {Nullifier(r)}
    /\ result' = [result EXCEPT ![r] = DoubleSpend("Nullifier already used")]
    /\ outcome' = [outcome EXCEPT ![r] =
                      Responded(ErrorResponse(DoubleSpend("Nullifier already used")))]
    /\ pc' = [pc EXCEPT ![r] = "done"]
    /\ UNCHANGED <<req, inner_result>>

\* the guard outlives the return: the 409 is answered with the mutex still held
ReturnErr_KeepsLock(r) ==
    /\ pc[r] = "return_err"
    /\ result' = [result EXCEPT ![r] = DoubleSpend("Nullifier already used")]
    /\ outcome' = [outcome EXCEPT ![r] =
                      Responded(ErrorResponse(DoubleSpend("Nullifier already used")))]
    /\ pc' = [pc EXCEPT ![r] = "done"]
    /\ UNCHANGED <<req, inner_result, used_nullifiers, lock_holder>>

\* return Err(DoubleSpend): the guard is dropped and the 409 response is built
ReturnErr(r) ==
    /\ pc[r] = "return_err"
    /\ lock_holder' = Unlocked(r)
    /\ result' = [result EXCEPT ![r] = DoubleSpend("Nullifier already used")]
    /\ outcome' = [outcome EXCEPT ![r] =
                      Responded(ErrorResponse(DoubleSpend("Nullifier already used")))]
    /\ pc' = [pc EXCEPT ![r] = "done"]
    /\ UNCHANGED <<req, inner_result, used_nullifiers>>

\* the guard is kept across the inner call
ReturnOk_KeepsLock(r) ==
    /\ pc[r] = "return_ok"
    /\ result' = [result EXCEPT ![r] = OkResult]
    /\ outcome' = [outcome EXCEPT ![r] = Inner]
    /\ pc' = [pc EXCEPT ![r] = "inner"]
    /\ UNCHANGED <<req, inner_result, used_nullifiers, lock_holder>>

\* return Ok(()): the guard is dropped and the request goes to the inner service
ReturnOk(r) ==
    /\ pc[r] = "return_ok"
    /\ lock_holder' = Unlocked(r)
    /\ result' = [result EXCEPT ![r] = OkResult]
    /\ outcome' = [outcome EXCEPT ![r] = Inner]
    /\ pc' = [pc EXCEPT ![r] = "inner"]
    /\ UNCHANGED <<req, inner_result, used_nullifiers>>

\* a failed inner call gives the nullifier back
InnerReturns_RollsBack(r) ==
    /\ pc[r] = "inner"
    /\ \E res \in {"response", "error"} :
          /\ inner_result' = [inner_result EXCEPT ![r] = res]
          /\ used_nullifiers' = IF res = "error"
                                THEN used_nullifiers \ {Nullifier(r)}
                                ELSE used_nullifiers
    /\ pc' = [pc EXCEPT ![r] = "done"]
    /\ UNCHANGED <<req, result, outcome, lock_holder>>

\* inner.call(req).await completes with the handler's response or its error
InnerReturns(r) ==
    /\ pc[r] = "inner"
    /\ \E res \in {"response", "error"} :
          inner_result' = [inner_result EXCEPT ![r] = res]
    /\ pc' = [pc EXCEPT ![r] = "done"]
    /\ UNCHANGED <<req, result, outcome, used_nullifiers, lock_holder>>

Next ==
    \E r \in Reqs :
        \/ Arrive(r)
        \/ Lock(r)
        \/ Contains(r)
        \/ Insert(r)
        \/ ReturnErr(r)
        \/ ReturnOk(r)
        \/ InnerReturns(r)

Spec == Init /\ [][Next]_vars

\* ------------------------------------------------------------------------
\* Sequential specification: one request at a time, every sample combination
\* ------------------------------------------------------------------------
SeqInit ==
    /\ \E rq \in AllRequests :
          req = [r \in Reqs |->
                   IF r = 1 THEN Request(ProtectedPrefix, ValidHeaders(NullB, None, None))
                   ELSE IF r = 2 THEN rq ELSE NoReq]
    /\ pc = [r \in Reqs |-> "idle"]
    /\ result = [r \in Reqs |-> NotCalled]
    /\ outcome = [r \in Reqs |-> Pending]
    /\ inner_result = [r \in Reqs |-> "none"]
    /\ used_nullifiers = {}
    /\ lock_holder = 0

\* the next request is handled once the ones before it are finished
SeqCall(r) ==
    /\ pc[r] = "idle"
    /\ req[r] # NoReq
    /\ \A q \in 1..(r - 1) : pc[q] = "done"
    /\ Call(r, req[r])
    /\ UNCHANGED <<req, inner_result, used_nullifiers, lock_holder>>

SeqNext ==
    \E r \in Reqs :
        \/ SeqCall(r)
        \/ Lock(r)
        \/ Contains(r)
        \/ Insert(r)
        \/ ReturnErr(r)
        \/ ReturnOk(r)
        \/ InnerReturns(r)

SpecSeq == SeqInit /\ [][SeqNext]_vars

\* ------------------------------------------------------------------------
\* Fair specification: a call that can take a step of verify_shadowpay
\* eventually takes it. The steps between lock() and the return are plain
\* synchronous code, and a call blocked in lock() is woken once the mutex is
\* free. Nothing is assumed of the arrival of requests or of the inner
\* service, which may never answer.
\* ------------------------------------------------------------------------
LiveRequests ==
    {Request(ProtectedPrefix, ValidHeaders(NullA, None, None)),
     Request(ProtectedPrefix, ValidHeaders(NullB, None, None)),
     Request(ProtectedPrefix, NoHeaders),
     Request(PathPublic, NoHeaders)}

ArriveLive(r) ==
    /\ pc[r] = "idle"
    /\ \A q \in 1..(r - 1) : pc[q] # "idle"
    /\ \E rq \in LiveRequests :
          /\ req' = [req EXCEPT ![r] = rq]
          /\ Call(r, rq)
    /\ UNCHANGED <<inner_result, used_nullifiers, lock_holder>>

\* the steps of verify_shadowpay from lock() to its return
VerifyStep(r) ==
    \/ Lock(r)
    \/ Contains(r)
    \/ Insert(r)
    \/ ReturnErr(r)
    \/ ReturnOk(r)

NextLive ==
    \E r \in Reqs :
        \/ ArriveLive(r)
        \/ Lock(r)
        \/ Contains(r)
        \/ Insert(r)
        \/ ReturnErr(r)
        \/ ReturnOk(r)
        \/ InnerReturns(r)

Fairness == \A r \in Reqs : WF_vars(VerifyStep(r))

SpecLive == Init /\ [][NextLive]_vars /\ Fairness

\* ------------------------------------------------------------------------
\* Derived notions
\* ------------------------------------------------------------------------
Arrived(r) == pc[r] # "idle"

Protected(r) == Arrived(r) /\ StartsWith(req[r].path, ProtectedPrefix)

Unprotected(r) == Arrived(r) /\ ~StartsWith(req[r].path, ProtectedPrefix)

\* the decision taken for request r, "None" while it is undecided
Decision(r) ==
    IF outcome[r] = Pending THEN "None"
    ELSE IF outcome[r] = Inner THEN "Forward"
    ELSE IF result[r] = NotCalled THEN "ProofRequired"
    ELSE result[r].kind

TypeOK ==
    /\ pc \in [Reqs -> {"idle", "lock", "contains", "insert", "return_err",
                        "return_ok", "inner", "done"}]
    /\ lock_holder \in 0..NumReqs
    /\ \A r \in Reqs : inner_result[r] \in {"none", "response", "error"}

\* a protected request that was let through to the inner service
Accepted(r) == Protected(r) /\ Decision(r) = "Forward"

\* the six structural checks, each stated on its own
CheckFails(i, headers) ==
    LET f == Fields(headers)
    IN  CASE i = 1 -> \E v \in {f.proof, f.nullifier, f.merkle_root, f.invoice_id} : Len(v) = 0
          [] i = 2 -> f.invoice_id # DemoInvoiceId
          [] i = 3 -> ~looks_like_base64(f.proof)
          [] i = 4 -> ~looks_like_hex32(f.merkle_root)
          [] i = 5 -> Len(f.nullifier) < 16
          [] i = 6 -> f.escrow_account = <<LockedEscrow>>

FailingChecks(headers) == {i \in 1..6 : CheckFails(i, headers)}

\* the header maps that carry all four mandatory headers and fail no check
WellFormedHeaders ==
    {h \in {rq.headers : rq \in SampleRequests \cup AllRequests} :
        MandatoryHeaders \subseteq DOMAIN h /\ FailingChecks(h) = {}}

\* request r carries all four mandatory headers and fails no structural check
WellFormed(r) == req[r].headers \in WellFormedHeaders

\* ------------------------------------------------------------------------
\* C1: replay protection. Among the protected requests let through to the
\* inner service, no two carry the same nullifier, whatever the interleaving.
\* ------------------------------------------------------------------------
C1_ReplayProtection ==
    \A r1, r2 \in Reqs :
        (Accepted(r1) /\ Accepted(r2) /\ Nullifier(r1) = Nullifier(r2)) => r1 = r2

\* three requests raced on one nullifier and all reached a decision
C1_Witness ==
    /\ NumReqs >= 3
    /\ \A r \in 1..3 : WellFormed(r) /\ Protected(r) /\ Nullifier(r) = NullA
                       /\ Decision(r) # "None"
    /\ \E r \in 1..3 : Accepted(r)

\* ------------------------------------------------------------------------
\* C2: of the M well-formed protected requests carrying one nullifier, once
\* all of them are decided exactly one was forwarded and M-1 got DoubleSpend
\* (409); any of them may be the winner.
\* ------------------------------------------------------------------------
Contenders(n) == {r \in Reqs : Protected(r) /\ WellFormed(r) /\ Nullifier(r) = n}

C2_ExactlyOneWinner ==
    \A n \in {Nullifier(r) : r \in Reqs} :
        LET S == Contenders(n)
        IN  (S # {} /\ \A r \in S : Decision(r) # "None") =>
               /\ Cardinality({r \in S : Decision(r) = "Forward"}) = 1
               /\ Cardinality({r \in S : Decision(r) = "DoubleSpend"
                                         /\ outcome[r].resp.code = 409})
                     = Cardinality(S) - 1

\* the request that arrived last won the race, the earlier ones got 409
C2_Witness ==
    LET S == Contenders(NullA)
    IN  /\ Cardinality(S) >= 2
        /\ \A r \in S : Decision(r) # "None"
        /\ \E w \in S : Accepted(w) /\ \A r \in S \ {w} : r < w

\* request r receives its decision in this step
Decides(r) == Decision(r) = "None" /\ Decision(r)' # "None"

\* some protected request carrying the nullifier of r was forwarded before
SpentBefore(r) ==
    \E q \in Reqs \ {r} : Accepted(q) /\ Nullifier(q) = Nullifier(r)'

\* ------------------------------------------------------------------------
\* C3 as stated: the first well-formed request carrying nullifier N is
\* forwarded, and every later protected request carrying N gets DoubleSpend
\* whatever its other fields are.
\* ------------------------------------------------------------------------
C3_AsStated ==
    [][\A r \in Reqs :
          (Decides(r) /\ Protected(r)') =>
              /\ SpentBefore(r) => Decision(r)' = "DoubleSpend"
              /\ (WellFormed(r)' /\ ~SpentBefore(r)) => Decision(r)' = "Forward"]_vars

\* ------------------------------------------------------------------------
\* C3 amended: the first well-formed request carrying nullifier N is
\* forwarded and every later well-formed request carrying N gets DoubleSpend,
\* whatever its escrow account and scheme; a request that is not well formed
\* is neither forwarded nor answered DoubleSpend, spent nullifier or not.
\* ------------------------------------------------------------------------
C3_FirstWinsLaterWellFormedConflict ==
    [][\A r \in Reqs :
          (Decides(r) /\ Protected(r)') =>
              /\ (WellFormed(r)' /\ SpentBefore(r)) => Decision(r)' = "DoubleSpend"
              /\ (WellFormed(r)' /\ ~SpentBefore(r)) => Decision(r)' = "Forward"
              /\ ~WellFormed(r)' => Decision(r)' \notin {"Forward", "DoubleSpend"}]_vars

\* a request differing from the accepted one in escrow account and scheme got
\* DoubleSpend, and one with the same nullifier and an unknown invoice got 428
C3_Witness ==
    \E q, r, s \in Reqs :
        /\ Accepted(q) /\ Nullifier(q) = NullA
        /\ Decision(r) = "DoubleSpend" /\ Nullifier(r) = NullA
        /\ req[r].headers # req[q].headers
        /\ Protected(s) /\ Nullifier(s) = NullA /\ Decision(s) = "PreconditionMissing"

\* ------------------------------------------------------------------------
\* C4: the check and the insert are one critical section. A call between
\* lock and return holds the mutex, so no other call checks or inserts in
\* between; at the insert the nullifier is still absent and the insert adds
\* exactly it; when the nullifier is present the call returns
\* DoubleSpend("Nullifier already used") and leaves the set as it was.
\* ------------------------------------------------------------------------
InCritical(r) == pc[r] \in {"contains", "insert", "return_err", "return_ok"}

C4_CriticalSection ==
    \A r \in Reqs :
        /\ InCritical(r) => (lock_holder = r /\ \A q \in Reqs \ {r} : ~InCritical(q))
        /\ pc[r] = "insert" => Nullifier(r) \notin used_nullifiers
        /\ pc[r] \in {"return_err", "return_ok"} => Nullifier(r) \in used_nullifiers
        /\ Decision(r) = "DoubleSpend" => result[r] = DoubleSpend("Nullifier already used")

C4_CheckAndInsertStep ==
    \A r \in Reqs :
        /\ (pc[r] = "contains" /\ pc'[r] # "contains") =>
              /\ used_nullifiers' = used_nullifiers
              /\ pc'[r] = IF Nullifier(r) \in used_nullifiers THEN "return_err" ELSE "insert"
        /\ (pc[r] = "insert" /\ pc'[r] # "insert") =>
              /\ used_nullifiers' = used_nullifiers \cup {Nullifier(r)}
              /\ result'[r] = result[r]
        /\ (pc[r] = "return_err" /\ pc'[r] # "return_err") =>
              /\ used_nullifiers' = used_nullifiers
              /\ result'[r] = DoubleSpend("Nullifier already used")
        /\ (InCritical(r) /\ pc'[r] = pc[r]) => used_nullifiers' = used_nullifiers

C4_AtomicCheckAndInsert == []C4_CriticalSection /\ [][C4_CheckAndInsertStep]_vars

\* one call is at its insert while another, carrying the same nullifier, waits
\* for the mutex
C4_Witness ==
    \E r, q \in Reqs :
        /\ pc[r] = "insert" /\ pc[q] = "lock" /\ Nullifier(q) = Nullifier(r)

\* ------------------------------------------------------------------------
\* C5: only a well-formed protected request changes the replay set, by adding
\* its own nullifier once. A request rejected as ProofRequired,
\* MissingHeaders, InvalidProof, PreconditionMissing or EscrowLocked is
\* decided without coming near the set, and the set holds one element per
\* request that got past the insert.
\* ------------------------------------------------------------------------
StructuralRejections ==
    {"ProofRequired", "MissingHeaders", "InvalidProof", "PreconditionMissing", "EscrowLocked"}

Inserted(r) == Protected(r) /\ (pc[r] = "return_ok" \/ Decision(r) = "Forward")

C5_SetIsTheInserted ==
    /\ \A r \in Reqs : Inserted(r) => (WellFormed(r) /\ Nullifier(r) \in used_nullifiers)
    /\ \A r \in Reqs : Decision(r) \in StructuralRejections =>
          (~WellFormed(r) /\ pc[r] = "done")
    /\ Cardinality(used_nullifiers) = Cardinality({r \in Reqs : Inserted(r)})

C5_OnlyInsertChangesSet ==
    /\ used_nullifiers' # used_nullifiers =>
          \E r \in Reqs :
              /\ pc[r] = "insert" /\ pc'[r] = "return_ok"
              /\ Protected(r) /\ WellFormed(r)
              /\ Nullifier(r) \notin used_nullifiers
              /\ used_nullifiers' = used_nullifiers \cup {Nullifier(r)}
    /\ \A r \in Reqs :
          (Decides(r) /\ Decision(r)' \in StructuralRejections) =>
              /\ pc[r] = "idle"
              /\ used_nullifiers' = used_nullifiers
              /\ lock_holder' = lock_holder

C5_ReplayOnlyAfterChecks == []C5_SetIsTheInserted /\ [][C5_OnlyInsertChangesSet]_vars

\* a request rejected for its locked escrow left its nullifier unused, and a
\* later request with that nullifier was accepted
C5_Witness ==
    \E r, q \in Reqs :
        /\ r < q
        /\ Decision(r) = "EscrowLocked" /\ Nullifier(r) = NullA
        /\ Accepted(q) /\ Nullifier(q) = NullA
        /\ used_nullifiers = {NullA}

\* ------------------------------------------------------------------------
\* C6: the validator reports the error of the first failing check in the
\* order missing/empty field, invoice id, base64 proof, merkle root,
\* nullifier length, locked escrow; a credential failing several checks gets
\* the earliest one's error, and it passes exactly when no check fails.
\* ------------------------------------------------------------------------
ExpectedError(i) ==
    CASE i = 1 -> MissingHeaders
      [] i = 2 -> PreconditionMissing("Unknown or inactive invoice id")
      [] i = 3 -> InvalidProof("Proof is not valid base64")
      [] i = 4 -> InvalidProof("Merkle root must be 32 byte hex")
      [] i = 5 -> InvalidProof("Nullifier looks too short")
      [] i = 6 -> EscrowLocked

Earliest(F) == CHOOSE i \in F : \A j \in F : i <= j

\* what validation of each sample header map is expected to give
ExpectedValidation ==
    [h \in {rq.headers : rq \in SampleRequests \cup AllRequests} |->
        IF FailingChecks(h) = {} THEN OkResult
        ELSE ExpectedError(Earliest(FailingChecks(h)))]

C6_FirstFailingCheckWins ==
    \A r \in Reqs :
        req[r] # NoReq =>
            LET expected == ExpectedValidation[req[r].headers]
            IN  /\ pc[r] = "idle" => StructuralChecks(req[r].headers) = expected
                /\ pc[r] \in {"lock", "contains", "insert", "return_err", "return_ok"}
                      => expected = OkResult
                /\ result[r] # NotCalled =>
                      IF expected = OkResult
                      THEN result[r].kind \in {"Ok", "DoubleSpend"}
                      ELSE result[r] = expected

\* a credential failing the invoice, proof and merkle root checks at once was
\* answered with the invoice error
C6_Witness ==
    \E r \in Reqs :
        /\ {2, 3, 4} \subseteq FailingChecks(req[r].headers)
        /\ result[r] = PreconditionMissing("Unknown or inactive invoice id")

\* ------------------------------------------------------------------------
\* C7 as stated: a protected request in which a mandatory header is absent,
\* empty or only whitespace is answered 434 as a missing-headers rejection,
\* whatever the other fields hold.
\* ------------------------------------------------------------------------
BlankOrAbsent(headers, k) == k \notin DOMAIN headers \/ Trim(headers[k]) = <<>>

C7_AsStated ==
    \A r \in Reqs :
        (/\ Protected(r)
         /\ Decision(r) # "None"
         /\ \E k \in MandatoryHeaders : BlankOrAbsent(req[r].headers, k))
        => (/\ Decision(r) \in {"MissingHeaders", "ProofRequired"}
            /\ outcome[r].resp.code = 434)

\* ------------------------------------------------------------------------
\* C8: a request whose path is not protected goes to the inner service
\* whatever headers it carries; the validator is not called for it and none
\* of its steps touches the replay set or its mutex.
\* ------------------------------------------------------------------------
C8_PassedThrough ==
    \A r \in Reqs :
        Unprotected(r) =>
            /\ Decision(r) = "Forward"
            /\ pc[r] \in {"inner", "done"}
            /\ result[r] = NotCalled

C8_NoReplaySetAccess ==
    \A r \in Reqs :
        (Unprotected(r)' /\ pc'[r] # pc[r]) =>
            /\ used_nullifiers' = used_nullifiers
            /\ lock_holder' = lock_holder

C8_UnprotectedAlwaysForwarded == []C8_PassedThrough /\ [][C8_NoReplaySetAccess]_vars

\* a request on an unprotected path carrying a spent nullifier was forwarded
C8_Witness ==
    \E q, r \in Reqs :
        /\ q < r
        /\ Accepted(q) /\ Nullifier(q) = NullA
        /\ Unprotected(r) /\ Nullifier(r) = NullA /\ pc[r] = "done"
        /\ used_nullifiers = {NullA}

\* ------------------------------------------------------------------------
\* C9 as stated: a protected request is answered ProofRequired without the
\* validator being called exactly when none of the four mandatory headers is
\* present; with at least one of them present the validator is called.
\* ------------------------------------------------------------------------
C9_AsStated ==
    \A r \in Reqs :
        (Protected(r) /\ Decision(r) # "None") =>
            /\ result[r] = NotCalled <=> MandatoryHeaders \cap DOMAIN req[r].headers = {}
            /\ result[r] = NotCalled => outcome[r] = Responded(ProofRequiredResponse)

\* ------------------------------------------------------------------------
\* C10: a rejection carries the status and title of its outcome
\* (ProofRequired 434, Invalid 422, DoubleSpend 409, EscrowLocked 423,
\* PreconditionMissing 428), the status in the body is the HTTP status, the
\* detail of Invalid, DoubleSpend and PreconditionMissing is the validator's
\* message, and the middleware produces no other status.
\* ------------------------------------------------------------------------
ExpectedStatus ==
    [ProofRequired |-> 434, MissingHeaders |-> 434, InvalidProof |-> 422,
     DoubleSpend |-> 409, EscrowLocked |-> 423, PreconditionMissing |-> 428]

ExpectedTitle ==
    [ProofRequired |-> "Private Payment Proof Required",
     MissingHeaders |-> "Private Payment Proof Required",
     InvalidProof |-> "Invalid ShadowPay Proof",
     DoubleSpend |-> "ShadowPay Nullifier Conflict",
     EscrowLocked |-> "ShadowPay Escrow Locked",
     PreconditionMissing |-> "ShadowPay Precondition Required"]

C10_RejectionTable ==
    \A r \in Reqs :
        /\ Decision(r) \in DOMAIN ExpectedStatus <=> outcome[r].kind = "Response"
        /\ outcome[r].kind = "Response" =>
              LET d == Decision(r)
                  resp == outcome[r].resp
              IN  /\ Protected(r)
                  /\ resp.code = ExpectedStatus[d]
                  /\ resp.body.status = resp.code
                  /\ resp.body.title = ExpectedTitle[d]
                  /\ d \in {"InvalidProof", "DoubleSpend", "PreconditionMissing"}
                        => resp.body.detail = result[r].msg
                  /\ resp.code \in {434, 422, 409, 423, 428}

\* a replayed nullifier was answered 409 with the validator's message
C10_Witness ==
    \E r \in Reqs :
        /\ Decision(r) = "DoubleSpend"
        /\ outcome[r].resp = [code |-> 409,
                              body |-> [status |-> 409,
                                        title |-> "ShadowPay Nullifier Conflict",
                                        detail |-> "Nullifier already used"]]

\* ------------------------------------------------------------------------
\* C11 as stated: a protected request answered ProofRequired and a protected
\* request answered MissingHeaders receive the identical 434 response: same
\* status, same title and same detail.
\* ------------------------------------------------------------------------
C11_AsStated ==
    \A r1, r2 \in Reqs :
        (Decision(r1) = "ProofRequired" /\ Decision(r2) = "MissingHeaders") =>
            outcome[r1].resp = outcome[r2].resp

\* ------------------------------------------------------------------------
\* C11 amended: the ProofRequired response and the MissingHeaders response
\* have the same status 434, the same status in the body and the same title;
\* their details differ ("... are required on this endpoint." against
\* "... are incomplete.").
\* ------------------------------------------------------------------------
C11_SameStatusAndTitle ==
    \A r1, r2 \in Reqs :
        (Decision(r1) = "ProofRequired" /\ Decision(r2) = "MissingHeaders") =>
            LET a == outcome[r1].resp
                b == outcome[r2].resp
            IN  /\ a.code = 434 /\ b.code = 434
                /\ a.body.status = b.body.status
                /\ a.body.title = b.body.title
                /\ a.body.detail = "ShadowPay proof headers are required on this endpoint."
                /\ b.body.detail = "ShadowPay proof headers are incomplete."

\* one request came without any header, another with an empty proof header
C11_Witness ==
    \E r1, r2 \in Reqs :
        /\ Decision(r1) = "ProofRequired" /\ DOMAIN req[r1].headers = {}
        /\ Decision(r2) = "MissingHeaders" /\ req[r2].headers[H_PROOF] = Empty

\* ------------------------------------------------------------------------
\* C12: the replay set is empty before the first request and no step removes
\* an element from it. So once a request carrying nullifier N was forwarded,
\* N is in the set for good, and every well-formed request carrying N that is
\* decided later is answered 409 DoubleSpend, whatever happened in between.
\* ------------------------------------------------------------------------
C12_StartsEmptyStaysSpent ==
    /\ (\A r \in Reqs : pc[r] = "idle") => used_nullifiers = {}
    /\ \A r \in Reqs : Accepted(r) => Nullifier(r) \in used_nullifiers

C12_GrowsOnly ==
    /\ used_nullifiers \subseteq used_nullifiers'
    /\ \A r \in Reqs :
          (Decides(r) /\ Protected(r)' /\ WellFormed(r)' /\ SpentBefore(r)) =>
              /\ Decision(r)' = "DoubleSpend"
              /\ outcome'[r].resp.code = 409

C12_MonotoneReplaySet == []C12_StartsEmptyStaysSpent /\ [][C12_GrowsOnly]_vars

\* the first request was forwarded, another nullifier was accepted after it,
\* and the last request, carrying the first one's nullifier, got 409
C12_Witness ==
    /\ NumReqs >= 3
    /\ Accepted(1) /\ Nullifier(1) = NullA /\ pc[1] = "done"
    /\ Accepted(2) /\ Nullifier(2) = NullB
    /\ Decision(3) = "DoubleSpend" /\ Nullifier(3) = NullA
    /\ used_nullifiers = {NullA, NullB}

\* ------------------------------------------------------------------------
\* C13: the replay check never deadlocks. Under fair scheduling a call that
\* waits for the mutex eventually holds it, a call that holds it eventually
\* gives it up with its decision taken (Forward on the success path,
\* DoubleSpend on the other), and every request that arrived is eventually
\* decided.
\* ------------------------------------------------------------------------
C13_LockNeverDeadlocks ==
    \A r \in Reqs :
        /\ (pc[r] = "lock") ~> (lock_holder = r)
        /\ (lock_holder = r) ~> (lock_holder # r /\ Decision(r) \in {"Forward", "DoubleSpend"})
        /\ Arrived(r) ~> (Decision(r) # "None")

\* one call is about to return DoubleSpend with the mutex held while another
\* call waits for the mutex
C13_Witness ==
    \E r, q \in Reqs :
        /\ pc[r] = "return_err" /\ lock_holder = r
        /\ pc[q] = "lock"

\* ------------------------------------------------------------------------
\* C14: X-ShadowPay-Scheme is informational. The decision a request gets and
\* the change it makes to the replay set are those of the same request with
\* the scheme header taken out, against the same replay set; so two requests
\* that differ only in that header are treated alike.
\* ------------------------------------------------------------------------
StripScheme(headers) == [k \in DOMAIN headers \ {H_SCHEME} |-> headers[k]]

\* the decision for a request without scheme header, given whether its
\* nullifier was spent before
DecisionWithoutScheme(path, h0, spent) ==
    IF ~StartsWith(path, ProtectedPrefix) THEN "Forward"
    ELSE IF ~(MandatoryHeaders \subseteq DOMAIN h0) THEN "ProofRequired"
    ELSE IF ExpectedValidation[h0] # OkResult THEN ExpectedValidation[h0].kind
    ELSE IF spent THEN "DoubleSpend"
    ELSE "Forward"

C14_SchemeStep ==
    /\ \A r \in Reqs :
          Decides(r) =>
              Decision(r)' = DecisionWithoutScheme(req'[r].path, StripScheme(req'[r].headers),
                                                   SpentBefore(r))
    /\ used_nullifiers' # used_nullifiers =>
          \E r \in Reqs :
              LET h0 == StripScheme(req[r].headers)
              IN  /\ pc[r] = "insert"
                  /\ h0 \in WellFormedHeaders
                  /\ used_nullifiers' = used_nullifiers \cup {UnwrapOr(GetStr(h0, H_NULLIFIER), <<>>)}

C14_SchemeIsInformational == [][C14_SchemeStep]_vars

\* a request naming another scheme than the default one was accepted after
\* the first request
C14_Witness ==
    \E r \in Reqs :
        /\ H_SCHEME \in DOMAIN req[r].headers
        /\ req[r].headers[H_SCHEME] = SchemeOther
        /\ Accepted(r) /\ Nullifier(r) = NullA
        /\ used_nullifiers = {NullA, NullB}

\* ------------------------------------------------------------------------
\* C15: DoubleSpend is never spurious. A request answered DoubleSpend (409)
\* is a protected request that failed none of the structural checks, and at
\* the moment it is answered another request carrying the same nullifier has
\* already been forwarded.
\* ------------------------------------------------------------------------
C15_ConflictStep ==
    \A r \in Reqs :
        (Decides(r) /\ Decision(r)' = "DoubleSpend") =>
            /\ Protected(r) /\ WellFormed(r)
            /\ FailingChecks(req[r].headers) = {}
            /\ \E q \in Reqs \ {r} :
                  /\ Accepted(q)
                  /\ Nullifier(q) = Nullifier(r)
                  /\ pc[q] \in {"inner", "done"}

C15_ConflictState ==
    \A r \in Reqs :
        Decision(r) = "DoubleSpend" =>
            /\ outcome[r].resp.code = 409
            /\ \E q \in Reqs \ {r} : Accepted(q) /\ Nullifier(q) = Nullifier(r)

C15_DoubleSpendNeverSpurious == []C15_ConflictState /\ [][C15_ConflictStep]_vars

\* a request carrying the other nullifier was accepted after one was spent,
\* and a replay of the spent one got 409
C15_Witness ==
    \E q, r, s \in Reqs :
        /\ Accepted(q) /\ Nullifier(q) = NullA
        /\ Accepted(s) /\ Nullifier(s) = NullB /\ q < s
        /\ Decision(r) = "DoubleSpend" /\ Nullifier(r) = NullA /\ s < r

\* ------------------------------------------------------------------------
\* C16: the replay set is exactly the set of nullifiers of the requests whose
\* credential was accepted (the insert done), one element per such request;
\* whenever the mutex is free these are the forwarded protected requests.
\* Every element is non-empty, at least 16 characters long and comes from a
\* request with invoice id inv_demo_1 whose escrow account is not the locked
\* sentinel.
\* ------------------------------------------------------------------------
InvoiceId(r) == UnwrapOr(GetStr(req[r].headers, H_INVOICE_ID), <<>>)

EscrowAccount(r) == GetStr(req[r].headers, H_ESCROW_ACCOUNT)

C16_SetIsAcceptedNullifiers ==
    /\ used_nullifiers = {Nullifier(r) : r \in {q \in Reqs : Inserted(q)}}
    /\ Cardinality(used_nullifiers) = Cardinality({r \in Reqs : Inserted(r)})
    /\ lock_holder = 0 =>
          /\ used_nullifiers = {Nullifier(r) : r \in {q \in Reqs : Accepted(q)}}
          /\ Cardinality(used_nullifiers) = Cardinality({r \in Reqs : Accepted(r)})
    /\ \A n \in used_nullifiers :
          /\ n # <<>>
          /\ Len(n) >= 16
          /\ \E r \in Reqs :
                /\ Inserted(r) /\ Nullifier(r) = n
                /\ InvoiceId(r) = DemoInvoiceId
                /\ EscrowAccount(r) # <<LockedEscrow>>

\* two nullifiers were accepted, one of them from a request naming an escrow
\* account that is not locked, while other requests were rejected
C16_Witness ==
    /\ used_nullifiers = {NullA, NullB}
    /\ lock_holder = 0
    /\ \E r \in Reqs : Accepted(r) /\ EscrowAccount(r) = <<EscrowOpen>>
    /\ \E r \in Reqs : Decision(r) \in StructuralRejections

\* ------------------------------------------------------------------------
\* C17: the nullifier is consumed before the inner service is called and the
\* consumption is never undone. When a protected request is handed to the
\* inner service its nullifier is already in the set; the inner service
\* answering, failing or never answering (a slow handler, or a request
\* dropped while it waits) leaves the set as it is; and a well-formed retry
\* with that nullifier is answered DoubleSpend.
\* ------------------------------------------------------------------------
\* the inner call of q failed or has not returned
InnerFailedOrPending(q) == pc[q] = "inner" \/ inner_result[q] = "error"

C17_ConsumedState ==
    \A r \in Reqs :
        (Accepted(r) /\ InnerFailedOrPending(r)) => Nullifier(r) \in used_nullifiers

C17_ConsumedStep ==
    \A r \in Reqs :
        /\ (Decides(r) /\ Protected(r)' /\ Decision(r)' = "Forward") =>
              (Nullifier(r) \in used_nullifiers /\ pc'[r] = "inner")
        /\ (pc[r] = "inner" /\ pc'[r] # "inner") => used_nullifiers' = used_nullifiers
        /\ (/\ Decides(r) /\ Protected(r)' /\ WellFormed(r)'
            /\ \E q \in Reqs \ {r} :
                  Accepted(q) /\ InnerFailedOrPending(q) /\ Nullifier(q) = Nullifier(r)')
           => Decision(r)' = "DoubleSpend"

C17_ConsumptionNeverRolledBack == []C17_ConsumedState /\ [][C17_ConsumedStep]_vars

\* the inner service failed for one accepted request and has not answered for
\* another; a retry of the failed one's nullifier got DoubleSpend
C17_Witness ==
    \E q, s, r \in Reqs :
        /\ Accepted(q) /\ inner_result[q] = "error" /\ Nullifier(q) = NullA
        /\ Accepted(s) /\ pc[s] = "inner"
        /\ q < r /\ Decision(r) = "DoubleSpend" /\ Nullifier(r) = NullA

\* ------------------------------------------------------------------------
\* C18: the mutex is held only between lock() and the return of
\* verify_shadowpay. No call holds it while its inner call runs, after its
\* response is built, or before it asked for it; so a call waiting for the
\* mutex while some inner call is running, which may never complete, is
\* still decided.
\* ------------------------------------------------------------------------
C18_HeldOnlyInCheckAndInsert ==
    /\ lock_holder \in Reqs \cup {0}
    /\ \A r \in Reqs :
          /\ lock_holder = r => pc[r] \in {"contains", "insert", "return_err", "return_ok"}
          /\ pc[r] \in {"idle", "lock", "inner", "done"} => lock_holder # r
          /\ outcome[r] # Pending => lock_holder # r

C18_LockScope ==
    /\ []C18_HeldOnlyInCheckAndInsert
    /\ \A r \in Reqs :
          (pc[r] = "lock" /\ \E q \in Reqs : pc[q] = "inner") ~> (Decision(r) # "None")

\* an inner call has not returned while another call is inside the critical
\* section and a third waits for the mutex
C18_Witness ==
    \E q, r, s \in Reqs :
        /\ pc[q] = "inner" /\ Accepted(q)
        /\ lock_holder = r /\ pc[r] = "contains"
        /\ pc[s] = "lock"

====
